---- MODULE Spec2Model ----
(***************************************************************************)
(* Model of the Starbucks store-data pipeline: DataProcessor               *)
(* (data_processor.py), Analyzer (analyzer.py), Visualizer (visualizer.py) *)
(* and main (main.py).                                                     *)
(*                                                                         *)
(* A DataFrame is a sequence of rows; a row is a function from column      *)
(* names to cell values; every cell is a string and a missing cell is NaN. *)
(* Three specifications share the variables:                               *)
(*   Spec      any client calling the DataProcessor methods in any order,  *)
(*   AggSpec   any client calling Analyzer / Visualizer on a table,        *)
(*   MainSpec  the program main().                                         *)
(***************************************************************************)
EXTENDS Integers, Sequences, FiniteSets, TLC

VARIABLES
    df,        \* DataProcessor.df, the processor's table
    call,      \* name of the last method called ("none" before any call)
    args,      \* its arguments
    pre,       \* DataProcessor.df as it was when the last call began
    ret,       \* its return value (NoValue when it returns None or raises)
    err,       \* the exception it raised ("none" when it returned)
    pc,        \* main(): the statement to execute next
    log,       \* main(): the statements executed so far, in order
    raw,       \* main(): the table as read from the input file
    unique_brands, \* main(): the local unique_brands
    cn_starbucks,  \* main(): the local cn_starbucks
    saved,     \* main(): the table save_to_csv was handed (<<>> before, else <<table>>)
    cn_saved,  \* main(): the table cn_starbucks.to_csv was handed
    analysed,  \* main(): the table analyze_data was handed
    charts,    \* main(): the bars plot_top_n drew, in order
    analysis   \* main(): what analyze_data returned

apiVars  == <<df, call, args, pre, ret, err>>
mainVars == <<pc, log, raw, unique_brands, cn_starbucks, saved, cn_saved, analysed,
             charts, analysis>>
vars     == <<df, call, args, pre, ret, err, pc, log, raw, unique_brands, cn_starbucks,
             saved, cn_saved, analysed, charts, analysis>>

(***************************************************************************)
(* Bounds of the model.                                                    *)
(***************************************************************************)
MaxRows    == 2    \* rows of a table in Spec and MainSpec
MaxAggRows == 3    \* rows of a table in AggSpec

(***************************************************************************)
(* Cell values.                                                            *)
(***************************************************************************)
NaN     == "<NaN>"
NoValue == "<None>"

Columns == {"Store Number", "Country", "City", "State/Province", "Brand"}

StoreNumbers == {"S1", "S2", "S3"}
Countries    == {"US", "CN"}
Cities       == {"Seattle", "Beijing"}
States       == {"WA"}
Brands       == {"Starbucks", "Teavana"}
Canonical    == "Starbucks"

MkRow(s, c, y, p, b) ==
    ("Store Number" :> s) @@ ("Country" :> c) @@ ("City" :> y)
        @@ ("State/Province" :> p) @@ ("Brand" :> b)

\* Rows of the tables the DataProcessor methods are run on.  Every column
\* they read may be missing; a row varies its Brand or its Country (not both
\* at once), which keeps the set of tables small.
CleanRows ==
    { r \in { MkRow("S1", c, y, p, b) :
                c \in Countries \cup {NaN}, y \in {"Seattle", NaN},
                p \in States \cup {NaN}, b \in Brands \cup {NaN} } :
        r["Brand"] = Canonical \/ r["Country"] = "CN" }

\* Rows of the tables the aggregations are run on.  analyze_data and the
\* plots read Store Number, Country and City, each column on its own; a row
\* may miss its Country or its City.
Geo == { <<"US", "Seattle">>, <<"CN", "Beijing">>, <<"US", NaN>>, <<NaN, "Seattle">> }

AggRows ==
    { MkRow(s, g[1], g[2], "WA", Canonical) : s \in StoreNumbers, g \in Geo }

\* The end-to-end table: stores S1 and S2 in Seattle, US and store S3 in
\* Beijing, CN.
Scenario ==
    << MkRow("S1", "US", "Seattle", "WA", Canonical),
       MkRow("S2", "US", "Seattle", "WA", Canonical),
       MkRow("S3", "CN", "Beijing", "WA", Canonical) >>

TablesOf(R, n) == UNION { [1..k -> R] : k \in 0..n }

Min(a, b) == IF a <= b THEN a ELSE b

(***************************************************************************)
(* pandas primitives the source relies on.                                 *)
(***************************************************************************)
isnull(v) == v = NaN

\* Series == scalar: a missing cell compares unequal to everything.
eq(v, w) == ~isnull(v) /\ ~isnull(w) /\ v = w

\* Series.unique(): the distinct cells, NaN included.
unique(d, column) == { d[i][column] : i \in DOMAIN d }

\* Series.nunique(): the number of distinct cells, NaN dropped.
nunique(d, column) == Cardinality(unique(d, column) \ {NaN})

(***************************************************************************)
(* data_processor.py                                                       *)
(***************************************************************************)
fill_city_swapped(row) ==
    IF isnull(row["State/Province"]) THEN row["City"] ELSE row["State/Province"]

fill_city(row) ==
    IF isnull(row["City"]) THEN row["State/Province"] ELSE row["City"]

RowFuncs == {"fill_city"}

Apply(func, row) == CASE func = "fill_city" -> fill_city(row)

\* df.apply(func, axis=1) of an empty frame is an empty frame, not a Series;
\* assigning it to one column raises ValueError in current pandas and is a
\* no-op in old ones.  Either way the frame is left as it was.
apply_function_all(d, func, column) ==
    IF d = <<>> THEN { [df |-> d, err |-> e] : e \in {"none", "ValueError"} }
    ELSE { [df  |-> [i \in DOMAIN d |-> [c \in Columns |-> Apply(func, d[i])]],
            err |-> "none"] }

apply_function(d, func, column) ==
    IF d = <<>> THEN { [df |-> d, err |-> e] : e \in {"none", "ValueError"} }
    ELSE { [df  |-> [i \in DOMAIN d |-> [d[i] EXCEPT ![column] = Apply(func, d[i])]],
            err |-> "none"] }

replace_values_map(d, column, value_map) ==
    [i \in DOMAIN d |->
        IF d[i][column] \in DOMAIN value_map
        THEN [d[i] EXCEPT ![column] = value_map[d[i][column]]]
        ELSE [d[i] EXCEPT ![column] = NaN]]

replace_values_dropna(d, column, value_map) ==
    [i \in DOMAIN d |->
        IF d[i][column] \in DOMAIN value_map /\ ~isnull(d[i][column])
        THEN [d[i] EXCEPT ![column] = value_map[d[i][column]]]
        ELSE d[i]]

\* Series.replace(dict): every cell that is a key becomes the key's value, all
\* keys matched against the cells as they were; a NaN key matches missing cells.
replace_values(d, column, value_map) ==
    [i \in DOMAIN d |->
        IF d[i][column] \in DOMAIN value_map
        THEN [d[i] EXCEPT ![column] = value_map[d[i][column]]]
        ELSE d[i]]

filter_by_country_inplace(d, country_code) ==
    LET m == SelectSeq(d, LAMBDA r : eq(r["Country"], country_code))
    IN  [df |-> m, value |-> m]

\* The method's outcome: self.df after the call and the frame returned,
\* self.df[mask], the rows whose mask holds in their order.
filter_by_country(d, country_code) ==
    [df |-> d, value |-> SelectSeq(d, LAMBDA r : eq(r["Country"], country_code))]

NullCount(d, column) == Cardinality({ i \in DOMAIN d : isnull(d[i][column]) })

missing_data_all(d) == [c \in Columns |-> NullCount(d, c)]

missing_data(d) ==
    [c \in { k \in Columns : NullCount(d, k) > 0 } |-> NullCount(d, c)]

city_null(d) == SelectSeq(d, LAMBDA r : isnull(r["City"]))

\* dict.fromkeys(keys, value)
fromkeys(keys, value) == [k \in keys |-> value]

(***************************************************************************)
(* pandas frequency primitives (analyzer.py, visualizer.py).               *)
(***************************************************************************)
Count(d, column, v) == Cardinality({ i \in DOMAIN d : d[i][column] = v })

Orderings(S) ==
    { f \in [1..Cardinality(S) -> S] : \A i, j \in DOMAIN f : f[i] = f[j] => i = j }

ValueCountsOver(d, column, values) ==
    { [i \in DOMAIN f |-> <<f[i], Count(d, column, f[i])>>] : f \in
        { g \in Orderings(values) :
            \A i, j \in DOMAIN g :
                i < j => Count(d, column, g[i]) >= Count(d, column, g[j]) } }

value_counts_keepna(d, column) == ValueCountsOver(d, column, unique(d, column))

value_counts_ascending(d, column) ==
    { [i \in DOMAIN f |-> <<f[i], Count(d, column, f[i])>>] : f \in
        { g \in Orderings(unique(d, column) \ {NaN}) :
            \A i, j \in DOMAIN g :
                i < j => Count(d, column, g[i]) <= Count(d, column, g[j]) } }

\* Series.value_counts(): one <<value, count>> per distinct cell, NaN dropped,
\* sorted by count, largest first.  The order of values with equal counts
\* depends on the pandas version: every such order is a possible result.
value_counts(d, column) == ValueCountsOver(d, column, unique(d, column) \ {NaN})

\* Series.nlargest(n), keep='first', of a series sorted largest first.
nlargest(s, n) == SubSeq(s, 1, Min(n, Len(s)))

(***************************************************************************)
(* analyzer.py                                                             *)
(***************************************************************************)
Stats(d, vc, vy) ==
    [ total_stores    |-> nunique(d, "Store Number"),
      total_countries |-> nunique(d, "Country"),
      top_country     |-> vc[1][1],
      top_city        |-> vy[1][1] ]

analyze_data_guarded(d) ==
    { IF Len(vc) = 0 \/ Len(vy) = 0
      THEN [err |-> "none",
            value |-> [ total_stores    |-> nunique(d, "Store Number"),
                        total_countries |-> nunique(d, "Country"),
                        top_country     |-> NaN,
                        top_city        |-> NaN ]]
      ELSE [err |-> "none", value |-> Stats(d, vc, vy)] :
        vc \in value_counts(d, "Country"), vy \in value_counts(d, "City") }

\* The outcomes of analyze_data(d): index[0] of an empty value_counts raises
\* IndexError.
analyze_data(d) ==
    { IF Len(vc) = 0 \/ Len(vy) = 0
      THEN [err |-> "IndexError", value |-> NoValue]
      ELSE [err |-> "none", value |-> Stats(d, vc, vy)] :
        vc \in value_counts(d, "Country"), vy \in value_counts(d, "City") }

(***************************************************************************)
(* visualizer.py                                                           *)
(***************************************************************************)
DefaultN == 10

\* plot_top_n: the bars drawn, data.index[:n] against data.values[:n].
plot_top_n(data, n) == SubSeq(data, 1, Min(n, Len(data)))

\* plot_top_countries / plot_top_cities / plot_top_cn_cities: the bars each
\* can draw for the column it counts.
plot_top(d, column, n) ==
    { plot_top_n(nlargest(s, n), n) : s \in value_counts(d, column) }

(***************************************************************************)
(* Spec: a client of DataProcessor.                                        *)
(***************************************************************************)
CountryCodes == {"CN", "EG", "US"}

\* The value maps a client passes to replace_values: dict.fromkeys over some
\* sets of Brand cells (main's maps are among them), and a map that swaps two
\* labels.
ValueMaps ==
    { fromkeys(K, Canonical) :
        K \in { {}, {"Teavana"}, {NaN, "Teavana"}, {"Starbucks", "Teavana"},
                Brands \cup {NaN} } }
        \cup { ("Starbucks" :> "Teavana") @@ ("Teavana" :> "Starbucks") }

MainIdle ==
    /\ pc = "idle" /\ log = <<>> /\ raw = <<>>
    /\ unique_brands = {} /\ cn_starbucks = <<>>
    /\ saved = <<>> /\ cn_saved = <<>> /\ analysed = <<>>
    /\ charts = <<>> /\ analysis = <<>>

Init ==
    /\ df \in TablesOf(CleanRows, MaxRows)
    /\ call = "none" /\ args = <<>> /\ pre = df /\ ret = NoValue /\ err = "none"
    /\ MainIdle

Called(name, a, d, r, e) ==
    /\ call' = name /\ args' = a /\ pre' = df /\ df' = d /\ ret' = r /\ err' = e
    /\ UNCHANGED mainVars

ApplyFunction ==
    \E func \in RowFuncs, column \in {"City", "State/Province", "Brand"} :
        \E o \in apply_function(df, func, column) :
            Called("apply_function", <<func, column>>, o.df, NoValue, o.err)

ReplaceValues ==
    \E column \in {"Brand"}, value_map \in ValueMaps :
        Called("replace_values", <<column, value_map>>,
               replace_values(df, column, value_map), NoValue, "none")

FilterByCountry ==
    \E country_code \in CountryCodes :
        LET o == filter_by_country(df, country_code)
        IN  Called("filter_by_country", <<country_code>>, o.df, o.value, "none")

MissingData == Called("missing_data", <<>>, df, missing_data(df), "none")

CityNull == Called("city_null", <<>>, df, city_null(df), "none")

FillCity ==
    \E i \in DOMAIN df :
        Called("fill_city", <<df[i]>>, df, fill_city(df[i]), "none")

Next ==
    \/ ApplyFunction
    \/ ReplaceValues
    \/ FilterByCountry
    \/ MissingData
    \/ CityNull
    \/ FillCity

Spec == Init /\ [][Next]_vars

(***************************************************************************)
(* Properties of the DataProcessor methods, checked under Spec.            *)
(***************************************************************************)
\* The indices of the rows of d whose Country is the string v.
Matching(d, v) == { i \in DOMAIN d : d[i]["Country"] = v }

\* C1: filter_by_country leaves the processor's table exactly as it was (same
\* rows, same order, same cells) and returns the rows whose Country equals the
\* country code, each once, in their original order: the k-th row returned is
\* the k-th matching row of the table.
C1_FilterNonDestructive ==
    call = "filter_by_country" =>
        /\ df = pre
        /\ Len(ret) = Cardinality(Matching(pre, args[1]))
        /\ \A k \in DOMAIN ret :
              \E i \in Matching(pre, args[1]) :
                  /\ ret[k] = pre[i]
                  /\ Cardinality({ j \in Matching(pre, args[1]) : j < i }) = k - 1

\* A two-row table whose first row (missing Country) is filtered out and whose
\* second row is returned.
C1_Witness ==
    /\ call = "filter_by_country" /\ args[1] = "CN"
    /\ Len(pre) = 2 /\ isnull(pre[1]["Country"]) /\ pre[2]["Country"] = "CN"
    /\ ret = <<pre[2]>> /\ Len(df) = 2

\* C5: fill_city returns the row's City whenever City is not missing, whatever
\* State/Province holds; the row's State/Province when City is missing; NaN,
\* without raising, when both are missing; and the table the row came from is
\* left as it was.
C5_FillCity ==
    call = "fill_city" =>
        LET row == args[1] IN
        /\ err = "none"
        /\ ~isnull(row["City"]) => ret = row["City"]
        /\ isnull(row["City"]) => ret = row["State/Province"]
        /\ isnull(row["City"]) /\ isnull(row["State/Province"]) => ret = NaN
        /\ df = pre /\ row \in { pre[i] : i \in DOMAIN pre }

\* fill_city on a row with a missing City and State/Province "WA" returned "WA".
C5_Witness ==
    /\ call = "fill_city"
    /\ isnull(args[1]["City"]) /\ args[1]["State/Province"] = "WA" /\ ret = "WA"

\* C6: replace_values never raises; in every row the column's old cell becomes
\* value_map[old] exactly when old is a key of value_map and stays as it was
\* otherwise, and a cell that is not a key is still unchanged after the same
\* map is applied once more.
C6_ReplaceValues ==
    call = "replace_values" =>
        LET column    == args[1]
            value_map == args[2]
            again     == replace_values(df, column, value_map)
        IN  /\ err = "none"
            /\ Len(df) = Len(pre)
            /\ \A i \in DOMAIN pre :
                  LET old == pre[i][column] IN
                  /\ old \in DOMAIN value_map => df[i][column] = value_map[old]
                  /\ old \notin DOMAIN value_map =>
                        df[i][column] = old /\ again[i][column] = old

\* One row's Brand was a key and was replaced by a different label while
\* another row's Brand was not a key.
C6_Witness ==
    /\ call = "replace_values" /\ args[1] = "Brand"
    /\ \E i, j \in DOMAIN pre :
          /\ pre[i]["Brand"] \in DOMAIN args[2] /\ df[i]["Brand"] # pre[i]["Brand"]
          /\ pre[j]["Brand"] \notin DOMAIN args[2] /\ df[j]["Brand"] = pre[j]["Brand"]

\* C7: missing_data returns a mapping whose keys are exactly the columns with
\* at least one missing cell and whose values are those columns' numbers of
\* missing cells; no column without a missing cell is among the keys.
C7_MissingData ==
    call = "missing_data" =>
        /\ DOMAIN ret = { c \in Columns : \E i \in DOMAIN df : isnull(df[i][c]) }
        /\ \A c \in DOMAIN ret :
              /\ ret[c] = Len(SelectSeq(df, LAMBDA r : isnull(r[c])))
              /\ ret[c] > 0

\* missing_data reported some columns but not all, one of them with two
\* missing cells.
C7_Witness ==
    /\ call = "missing_data"
    /\ DOMAIN ret # {} /\ DOMAIN ret # Columns
    /\ \E c \in DOMAIN ret : ret[c] = 2

\* C8: apply_function changes the target column only: every row's target cell
\* is func applied to that row as it was before the call, and the number of
\* rows, their order and every other column are unchanged.
C8_ApplyFunction ==
    call = "apply_function" =>
        LET func == args[1]  column == args[2] IN
        /\ Len(df) = Len(pre)
        /\ \A i \in DOMAIN pre :
              /\ df[i][column] = Apply(func, pre[i])
              /\ \A c \in Columns \ {column} : df[i][c] = pre[i][c]

\* apply_function(fill_city, 'City') filled a missing City with "WA".
C8_Witness ==
    /\ call = "apply_function" /\ args[2] = "City"
    /\ \E i \in DOMAIN pre : isnull(pre[i]["City"]) /\ df[i]["City"] = "WA"

(***************************************************************************)
(* AggSpec: a client of Analyzer and Visualizer.                           *)
(***************************************************************************)
\* The values of n the plots are called with: none, fewer than, as many as and
\* more than the distinct values of a column, and the default.
NValues == {0, 1, 2, DefaultN}

InitAgg ==
    /\ df \in TablesOf(AggRows, MaxAggRows)
    /\ call = "none" /\ args = <<>> /\ pre = df /\ ret = NoValue /\ err = "none"
    /\ MainIdle

AnalyzeData ==
    \E o \in analyze_data(df) :
        Called("analyze_data", <<>>, df, o.value, o.err)

PlotTopCountries ==
    \E n \in NValues : \E bars \in plot_top(df, "Country", n) :
        Called("plot_top_countries", <<"Country", n>>, df, bars, "none")

PlotTopCities ==
    \E n \in NValues : \E bars \in plot_top(df, "City", n) :
        Called("plot_top_cities", <<"City", n>>, df, bars, "none")

PlotTopCnCities ==
    \E n \in NValues : \E bars \in plot_top(df, "City", n) :
        Called("plot_top_cn_cities", <<"City", n>>, df, bars, "none")

NextAgg ==
    \/ AnalyzeData
    \/ PlotTopCountries
    \/ PlotTopCities
    \/ PlotTopCnCities

AggSpec == InitAgg /\ [][NextAgg]_vars

(***************************************************************************)
(* Properties of Analyzer and Visualizer, checked under AggSpec.           *)
(***************************************************************************)
\* The cells of a column that are not missing.
Present(d, column) == { d[i][column] : i \in { k \in DOMAIN d : ~isnull(d[k][column]) } }

\* The number of rows of d holding v in the column.
RowsHolding(d, column, v) == Len(SelectSeq(d, LAMBDA r : r[column] = v))

\* v is a cell of the column held by as many rows as any cell is.
IsMode(d, column, v) ==
    /\ v \in Present(d, column)
    /\ \A w \in Present(d, column) : RowsHolding(d, column, w) <= RowsHolding(d, column, v)

\* The record analyze_data is claimed to return for table d.
IsSummary(d, r) ==
    /\ r.total_stores = Cardinality(Present(d, "Store Number"))
    /\ r.total_countries = Cardinality(Present(d, "Country"))
    /\ IsMode(d, "Country", r.top_country)
    /\ IsMode(d, "City", r.top_city)

\* C2 as stated: analyze_data on a table with no rows fails with
\* EmptyTableError, returns no record and fails with no other kind of error.
C2_Original ==
    call = "analyze_data" /\ pre = <<>> => err = "EmptyTableError" /\ ret = NoValue

\* C2 as amended: analyze_data on a table with no rows returns no record and
\* fails with IndexError, and with no other kind of error.
C2_EmptyTableIndexError ==
    call = "analyze_data" /\ pre = <<>> => err = "IndexError" /\ ret = NoValue

\* analyze_data was called on the table with no rows and raised.
C2_Witness ==
    call = "analyze_data" /\ pre = <<>> /\ df = <<>> /\ err # "none"

\* C3 as stated: for every table with at least one row analyze_data returns a
\* record with the four fields populated: the numbers of distinct store
\* numbers and countries, a country and a city held by the most rows; for the
\* end-to-end table the record is 3, 2, US, Seattle.
C3_Original ==
    call = "analyze_data" /\ pre # <<>> =>
        /\ err = "none"
        /\ IsSummary(pre, ret)
        /\ pre = Scenario =>
              ret = [total_stores |-> 3, total_countries |-> 2,
                     top_country |-> "US", top_city |-> "Seattle"]

\* C3 as amended: for every table with at least one Country cell and at least
\* one City cell that are not missing, analyze_data returns such a record
\* (missing cells are not counted among the distinct values), 3, 2, US,
\* Seattle for the end-to-end table; for a table whose Country cells or City
\* cells are all missing it raises IndexError and returns no record.
C3_Summary ==
    call = "analyze_data" =>
        IF Present(pre, "Country") # {} /\ Present(pre, "City") # {}
        THEN /\ err = "none"
             /\ IsSummary(pre, ret)
             /\ pre = Scenario =>
                   ret = [total_stores |-> 3, total_countries |-> 2,
                          top_country |-> "US", top_city |-> "Seattle"]
        ELSE err = "IndexError" /\ ret = NoValue

\* analyze_data returned 3, 2, US, Seattle for the end-to-end table.
C3_Witness ==
    /\ call = "analyze_data" /\ pre = Scenario /\ err = "none"
    /\ ret.total_stores = 3 /\ ret.top_city = "Seattle"

\* C4: the bars of plot_top_countries / plot_top_cities / plot_top_cn_cities
\* (value_counts().nlargest(n), sliced [:n] by plot_top_n) are <<value, count>>
\* pairs in non-increasing order of count, each count the number of rows
\* holding the value, no value twice, none missing, and there are exactly
\* min(n, number of distinct values of the column) of them, a missing cell not
\* being a value; for the end-to-end table, Country and n = 10 they are
\* <<US, 2>>, <<CN, 1>>.
C4_TopN ==
    call \in {"plot_top_countries", "plot_top_cities", "plot_top_cn_cities"} =>
        LET column == args[1]  n == args[2] IN
        /\ err = "none"
        /\ \A i, j \in DOMAIN ret : i < j => ret[i][2] >= ret[j][2]
        /\ \A i, j \in DOMAIN ret : ret[i][1] = ret[j][1] => i = j
        /\ \A i \in DOMAIN ret :
              /\ ret[i][1] \in Present(pre, column)
              /\ ret[i][2] = RowsHolding(pre, column, ret[i][1])
        /\ Len(ret) = Min(n, Cardinality(Present(pre, column)))
        /\ pre = Scenario /\ column = "Country" /\ n = DefaultN =>
              ret = << <<"US", 2>>, <<"CN", 1>> >>

\* plot_top_countries drew <<US, 2>>, <<CN, 1>> for the end-to-end table.
C4_Witness ==
    /\ call = "plot_top_countries" /\ args = <<"Country", DefaultN>> /\ pre = Scenario
    /\ ret = << <<"US", 2>>, <<"CN", 1>> >>

(***************************************************************************)
(* MainSpec: the program main() of main.py, one action per statement.      *)
(***************************************************************************)
\* Rows of the input file: the rows the cleaning acts on and the rows of the
\* end-to-end table.
MainRows == CleanRows \cup { Scenario[i] : i \in DOMAIN Scenario }

Program_summary_first ==
    << "DataProcessor", "head", "missing_data", "city_null", "apply_function",
       "filter_by_country_EG", "unique", "replace_values", "save_to_csv",
       "analyze_data", "plot_top_countries", "plot_top_cities",
       "filter_by_country_CN", "cn_head", "cn_to_csv", "plot_top_cn_cities" >>

\* The statements of main() in the order of the source text.
Program ==
    << "DataProcessor", "head", "missing_data", "city_null", "apply_function",
       "filter_by_country_EG", "unique", "replace_values", "save_to_csv",
       "plot_top_countries", "plot_top_cities", "filter_by_country_CN",
       "cn_head", "cn_to_csv", "plot_top_cn_cities", "analyze_data" >>

\* The statement that follows stmt; "done" after the last.
After(stmt) ==
    LET i == CHOOSE k \in DOMAIN Program : Program[k] = stmt
    IN  IF i = Len(Program) THEN "done" ELSE Program[i + 1]

InitMain ==
    /\ df = <<>>
    /\ call = "none" /\ args = <<>> /\ pre = <<>> /\ ret = NoValue /\ err = "none"
    /\ pc = Program[1] /\ log = <<>> /\ raw = <<>>
    /\ unique_brands = {} /\ cn_starbucks = <<>>
    /\ saved = <<>> /\ cn_saved = <<>> /\ analysed = <<>>
    /\ charts = <<>> /\ analysis = <<>>

\* Statement stmt runs to completion and control moves to the next one.
Run(stmt) == pc = stmt /\ pc' = After(stmt) /\ log' = Append(log, stmt) /\ err' = "none"

\* Statement stmt raises e: main() ends there.
Raise(stmt, e) == pc = stmt /\ pc' = "aborted" /\ log' = Append(log, stmt) /\ err' = e

Keep == UNCHANGED <<call, args, pre, ret>>

\* processor = DataProcessor(config.get('input_file'))
MainLoad ==
    /\ pc = "DataProcessor"
    /\ \/ \E t \in TablesOf(MainRows, MaxRows) :
              Run("DataProcessor") /\ df' = t /\ raw' = t
       \/ Raise("DataProcessor", "FileNotFoundError") /\ df' = df /\ raw' = raw
    /\ Keep
    /\ UNCHANGED <<unique_brands, cn_starbucks, saved, cn_saved, analysed, charts, analysis>>

\* print(processor.head); print(processor.missing_data); print(processor.city_null);
\* print(cn_starbucks.head())
MainPrint ==
    /\ \E stmt \in {"head", "missing_data", "city_null", "cn_head"} : Run(stmt)
    /\ Keep
    /\ UNCHANGED <<raw, df, unique_brands, cn_starbucks, saved, cn_saved, analysed, charts, analysis>>

\* print(processor.filter_by_country('EG'))
MainFilterEG ==
    /\ Run("filter_by_country_EG")
    /\ df' = filter_by_country(df, "EG").df
    /\ Keep
    /\ UNCHANGED <<raw, unique_brands, cn_starbucks, saved, cn_saved, analysed, charts, analysis>>

\* processor.apply_function(fill_city, 'City')
MainClean ==
    /\ pc = "apply_function"
    /\ \E o \in apply_function(df, "fill_city", "City") :
           /\ df' = o.df
           /\ IF o.err = "none" THEN Run("apply_function")
                                ELSE Raise("apply_function", o.err)
    /\ Keep
    /\ UNCHANGED <<raw, unique_brands, cn_starbucks, saved, cn_saved, analysed, charts, analysis>>

\* unique_brands = processor.df['Brand'].unique()
MainUnique ==
    /\ Run("unique")
    /\ unique_brands' = unique(df, "Brand")
    /\ Keep
    /\ UNCHANGED <<raw, df, cn_starbucks, saved, cn_saved, analysed, charts, analysis>>

\* processor.replace_values('Brand', dict.fromkeys(unique_brands, 'Starbucks'))
MainTransform ==
    /\ Run("replace_values")
    /\ df' = replace_values(df, "Brand", fromkeys(unique_brands, Canonical))
    /\ Keep
    /\ UNCHANGED <<raw, unique_brands, cn_starbucks, saved, cn_saved, analysed, charts, analysis>>

\* processor.save_to_csv(config.get('output_file')): df.to_csv, then config.set
\* and config.save.  Either write can fail, the second after the table was
\* handed over.
MainSave ==
    /\ \/ Run("save_to_csv") /\ saved' = <<df>>
       \/ Raise("save_to_csv", "OSError") /\ saved' = saved
       \/ Raise("save_to_csv", "OSError") /\ saved' = <<df>>
    /\ Keep
    /\ UNCHANGED <<raw, df, unique_brands, cn_starbucks, cn_saved, analysed, charts, analysis>>

\* Visualizer.plot_top_countries(processor.df)
MainPlotCountries ==
    /\ pc = "plot_top_countries"
    /\ Run("plot_top_countries")
    /\ \E bars \in plot_top(df, "Country", DefaultN) : charts' = Append(charts, bars)
    /\ Keep
    /\ UNCHANGED <<raw, df, unique_brands, cn_starbucks, saved, cn_saved, analysed, analysis>>

\* Visualizer.plot_top_cities(processor.df)
MainPlotCities ==
    /\ pc = "plot_top_cities"
    /\ Run("plot_top_cities")
    /\ \E bars \in plot_top(df, "City", DefaultN) : charts' = Append(charts, bars)
    /\ Keep
    /\ UNCHANGED <<raw, df, unique_brands, cn_starbucks, saved, cn_saved, analysed, analysis>>

\* cn_starbucks = processor.filter_by_country('CN')
MainFilterCN ==
    /\ Run("filter_by_country_CN")
    /\ LET o == filter_by_country(df, "CN")
       IN  df' = o.df /\ cn_starbucks' = o.value
    /\ Keep
    /\ UNCHANGED <<raw, unique_brands, saved, cn_saved, analysed, charts, analysis>>

\* cn_starbucks.to_csv(config.get('cn_output_file'), index=False)
MainSaveCN ==
    /\ \/ Run("cn_to_csv") /\ cn_saved' = <<cn_starbucks>>
       \/ Raise("cn_to_csv", "OSError") /\ cn_saved' = cn_saved
    /\ Keep
    /\ UNCHANGED <<raw, df, unique_brands, cn_starbucks, saved, analysed, charts, analysis>>

\* Visualizer.plot_top_cn_cities(cn_starbucks)
MainPlotCnCities ==
    /\ pc = "plot_top_cn_cities"
    /\ Run("plot_top_cn_cities")
    /\ \E bars \in plot_top(cn_starbucks, "City", DefaultN) : charts' = Append(charts, bars)
    /\ Keep
    /\ UNCHANGED <<raw, df, unique_brands, cn_starbucks, saved, cn_saved, analysed, analysis>>

\* analysis = analyzer.analyze_data(processor.df); print(analyzer.format_analysis(analysis))
MainAnalyze ==
    /\ pc = "analyze_data"
    /\ analysed' = <<df>>
    /\ \E o \in analyze_data(df) :
           IF o.err = "none"
           THEN Run("analyze_data") /\ analysis' = <<o.value>>
           ELSE Raise("analyze_data", o.err) /\ analysis' = analysis
    /\ Keep
    /\ UNCHANGED <<raw, df, unique_brands, cn_starbucks, saved, cn_saved, charts>>

NextMain ==
    \/ MainLoad
    \/ MainPrint
    \/ MainFilterEG
    \/ MainClean
    \/ MainUnique
    \/ MainTransform
    \/ MainSave
    \/ MainPlotCountries
    \/ MainPlotCities
    \/ MainFilterCN
    \/ MainSaveCN
    \/ MainPlotCnCities
    \/ MainAnalyze

MainSpec == InitMain /\ [][NextMain]_vars

(***************************************************************************)
(* Properties of main(), checked under MainSpec.                           *)
(***************************************************************************)
\* The stage of the pipeline a statement of main() belongs to; the prints, the
\* filters and the write of the country-filtered table belong to none.
StageOf(stmt) ==
    CASE stmt = "DataProcessor"  -> "load"
      [] stmt = "apply_function" -> "clean"
      [] stmt = "replace_values" -> "transform"
      [] stmt = "save_to_csv"    -> "persist"
      [] stmt \in {"plot_top_countries", "plot_top_cities", "plot_top_cn_cities"}
                                 -> "visualize"
      [] stmt = "analyze_data"   -> "summarize"
      [] OTHER                   -> "other"

Position(order, stage) == CHOOSE k \in DOMAIN order : order[k] = stage

\* The statements executed so far ran stage by stage in the given order: no
\* statement of a later stage ran before a statement of an earlier one.
StagesInOrder(order) ==
    \A i, j \in DOMAIN log :
        i < j /\ StageOf(log[i]) # "other" /\ StageOf(log[j]) # "other" =>
            Position(order, StageOf(log[i])) <= Position(order, StageOf(log[j]))

\* No statement ran twice, and a run that reached the end ran every stage.
EachOnce ==
    /\ \A i, j \in DOMAIN log : log[i] = log[j] => i = j
    /\ pc = "done" =>
          \A stage \in {"load", "clean", "transform", "persist", "visualize", "summarize"} :
              \E i \in DOMAIN log : StageOf(log[i]) = stage

\* C9 as stated: in every run of main the stages occur in the order load,
\* clean, transform, persist, summarize, visualize, each once and one after
\* the other, the summary being computed after the cleaned table is persisted
\* and before any chart is drawn.
C9_Original ==
    /\ StagesInOrder(<<"load", "clean", "transform", "persist", "summarize", "visualize">>)
    /\ EachOnce

\* C9 as amended: in every run of main the stages occur in the order load,
\* clean, transform, persist, visualize, summarize, each once and one after
\* the other, the summary being computed after the cleaned table is persisted
\* and after every chart is drawn.
C9_StageOrder ==
    /\ StagesInOrder(<<"load", "clean", "transform", "persist", "visualize", "summarize">>)
    /\ EachOnce

\* A run of main that executed every statement and ended.
C9_Witness ==
    /\ pc = "done" /\ log = Program /\ log[Len(log)] = "analyze_data"
    /\ Len(charts) = Cardinality({ i \in DOMAIN log : StageOf(log[i]) = "visualize" })
    /\ analysis # <<>>

\* Every row's Brand is the canonical label and no row misses its City while
\* it has a State/Province.
Cleaned(t) ==
    \A i \in DOMAIN t :
        /\ t[i]["Brand"] = Canonical
        /\ ~(isnull(t[i]["City"]) /\ ~isnull(t[i]["State/Province"]))

\* C10: the tables main hands to save_to_csv, to the write of the
\* country-filtered table and to analyze_data are fully cleaned; the value map
\* is built from every distinct Brand cell of the table; and from save_to_csv
\* on the processor's table stays the table that was saved, the
\* country-filtered table being its rows of country CN.
C10_CleanedHandOffs ==
    /\ pc = "replace_values" => unique_brands = { df[i]["Brand"] : i \in DOMAIN df }
    /\ saved # <<>> => Cleaned(saved[1]) /\ df = saved[1] /\ Len(df) = Len(raw)
    /\ cn_saved # <<>> =>
          /\ saved # <<>> /\ Cleaned(cn_saved[1])
          /\ cn_saved[1] = SelectSeq(saved[1], LAMBDA r : r["Country"] = "CN")
    /\ analysed # <<>> => saved # <<>> /\ analysed = saved

\* A run of main to the end whose input had a row of country CN with a
\* variant Brand, a missing City and State/Province "WA": it was saved, and
\* written to the country-filtered file, with City "WA".
C10_Witness ==
    /\ pc = "done" /\ saved # <<>> /\ analysed # <<>> /\ cn_saved # <<>>
    /\ \E i \in DOMAIN raw :
          /\ raw[i]["Brand"] = "Teavana" /\ isnull(raw[i]["City"])
          /\ raw[i]["State/Province"] = "WA" /\ raw[i]["Country"] = "CN"
          /\ saved[1][i]["City"] = "WA"
    /\ \E k \in DOMAIN cn_saved[1] : cn_saved[1][k]["City"] = "WA"

====
